---- MODULE Spec2Model ----
(***************************************************************************)
(* SchemaGen (server.py): a set of tool handlers, each of which opens a    *)
(* fresh SQLite connection, runs one generated statement (or, for          *)
(* drop_column / rename_column, a fixed sequence of statements), commits   *)
(* and closes the connection.  The database file is the only durable      *)
(* state.  Text is modelled as a sequence of one-character strings so that *)
(* generated identifiers, stored DDL and substring tests are computed.     *)
(***************************************************************************)
EXTENDS Integers, Sequences, FiniteSets, Bags, TLC

VARIABLES db, calls, conns, last, concurrent

vars == <<db, calls, conns, last, concurrent>>

-----------------------------------------------------------------------------
(* Bounds of the model.                                                    *)

\* Rows in the database, over all tables, one caller at a time.
MaxRows == 2

\* The largest rowid a row is given or a call names.
MaxRowid == 2

\* Calls of several statements that run at the same time.
MaxInFlight == 1

\* Rows in the database, and the largest rowid, with concurrent callers.
MaxRowsConcurrent == 1

-----------------------------------------------------------------------------
(* Text helpers.                                                           *)

RECURSIVE Join(_, _)
Join(parts, sep) ==
    IF Len(parts) = 0 THEN <<>>
    ELSE IF Len(parts) = 1 THEN parts[1]
    ELSE parts[1] \o sep \o Join(Tail(parts), sep)

Contains(text, sub) ==
    \E i \in 0..(Len(text) - Len(sub)) :
        \A j \in 1..Len(sub) : text[i + j] = sub[j]

Range(seq) == {seq[i] : i \in 1..Len(seq)}

RemoveAt(seq, i) == SubSeq(seq, 1, i - 1) \o SubSeq(seq, i + 1, Len(seq))

Digits == <<"0", "1", "2", "3", "4", "5", "6", "7", "8", "9">>

IsDigit(c) == c \in Range(Digits)

DigitVal(c) == (CHOOSE i \in 1..10 : Digits[i] = c) - 1

IdentChars ==
    {"a", "b", "c", "d", "e", "f", "g", "h", "i", "j", "k", "l", "m", "n",
     "o", "p", "q", "r", "s", "t", "u", "v", "w", "x", "y", "z", "_"}
    \cup Range(Digits)

\* A name that survives verbatim interpolation into statement text.
IsBareIdent(s) ==
    /\ Len(s) > 0
    /\ ~IsDigit(s[1])
    /\ \A i \in 1..Len(s) : s[i] \in IdentChars

Quote(s) == <<"\"">> \o s \o <<"\"">>

-----------------------------------------------------------------------------
(* Names and type strings used by the callers.                             *)

t == <<"t">>

suffix_new == <<"_", "n", "e", "w">>

t_new == t \o suffix_new

id == <<"i", "d">>

name == <<"n", "a", "m", "e">>

age == <<"a", "g", "e">>

label == <<"l", "a", "b", "e", "l">>

record_id == <<"r", "e", "c", "o", "r", "d", "_", "i", "d">>

INTEGER_PRIMARY_KEY ==
    <<"I", "N", "T", "E", "G", "E", "R", " ", "P", "R", "I", "M", "A", "R", "Y",
      " ", "K", "E", "Y">>

INTEGER == <<"I", "N", "T", "E", "G", "E", "R">>

TEXT == <<"T", "E", "X", "T">>

INT == <<"I", "N", "T">>

CREATE_TABLE == <<"C", "R", "E", "A", "T", "E", " ", "T", "A", "B", "L", "E", " ">>

-----------------------------------------------------------------------------
(* Values of the payload domain (text, integer, null) and the engine's     *)
(* type affinity.                                                          *)

Null == [k |-> "null", n |-> 0, s |-> <<>>]

IntV(i) == [k |-> "int", n |-> i, s |-> <<>>]

TextV(x) == [k |-> "text", n |-> 0, s |-> x]

LooksInteger(s) == Len(s) > 0 /\ \A i \in 1..Len(s) : IsDigit(s[i])

RECURSIVE ParseInt(_)
ParseInt(s) ==
    IF Len(s) = 0 THEN 0
    ELSE 10 * ParseInt(SubSeq(s, 1, Len(s) - 1)) + DigitVal(s[Len(s)])

RECURSIVE FormatInt(_)
FormatInt(i) ==
    IF i < 10 THEN <<Digits[i + 1]>>
    ELSE FormatInt(i \div 10) \o <<Digits[(i % 10) + 1]>>

\* Column affinity from the declared type: "INT" anywhere gives INTEGER,
\* otherwise "TEXT" gives TEXT.
Affinity(type) ==
    IF Contains(type, INT) THEN "INTEGER"
    ELSE IF Contains(type, TEXT) THEN "TEXT"
    ELSE "BLOB"

ApplyAffinity(aff, v) ==
    IF aff = "INTEGER" /\ v.k = "text" /\ LooksInteger(v.s) THEN IntV(ParseInt(v.s))
    ELSE IF aff = "TEXT" /\ v.k = "int" THEN TextV(FormatInt(v.n))
    ELSE v

\* A column declared exactly INTEGER PRIMARY KEY is an alias of the rowid.
IsRowidAlias(col) == col.type = INTEGER_PRIMARY_KEY

-----------------------------------------------------------------------------
(* The database file: the catalog in creation order.  A table is           *)
(* [name, cols, rows, quoted, tail]: rows are kept in rowid order, as a    *)
(* scan returns them; quoted and tail give the DDL text the catalog        *)
(* stores for it.                                                          *)

FindTable(d, n) ==
    IF \E i \in 1..Len(d) : d[i].name = n
    THEN CHOOSE i \in 1..Len(d) : d[i].name = n
    ELSE 0

HasTable(d, n) == FindTable(d, n) # 0

TableOf(d, n) == d[FindTable(d, n)]

ColNames(tbl) == [i \in 1..Len(tbl.cols) |-> tbl.cols[i].name]

ColIndex(tbl, c) ==
    IF \E i \in 1..Len(tbl.cols) : tbl.cols[i].name = c
    THEN CHOOSE i \in 1..Len(tbl.cols) : tbl.cols[i].name = c
    ELSE 0

HasCol(tbl, c) == ColIndex(tbl, c) # 0

Rowids(tbl) == {tbl.rows[i].rowid : i \in 1..Len(tbl.rows)}

RowIndex(tbl, rid) ==
    IF \E i \in 1..Len(tbl.rows) : tbl.rows[i].rowid = rid
    THEN CHOOSE i \in 1..Len(tbl.rows) : tbl.rows[i].rowid = rid
    ELSE 0

MaxOf(S) == IF S = {} THEN 0 ELSE CHOOSE m \in S : \A x \in S : x <= m

\* The rows re-ordered by rowid (insertion sort of one row into sorted rows).
RECURSIVE SortRows(_)
SortRows(rows) ==
    IF Len(rows) <= 1 THEN rows
    ELSE LET m == CHOOSE i \in 1..Len(rows) :
                      \A j \in 1..Len(rows) : rows[i].rowid <= rows[j].rowid
         IN  <<rows[m]>> \o SortRows(RemoveAt(rows, m))

\* The stored DDL text of a table (sqlite_master.sql).
TableSql(tbl) ==
    CREATE_TABLE \o (IF tbl.quoted THEN Quote(tbl.name) ELSE tbl.name) \o tbl.tail

Ok(d) == [ok |-> TRUE, db |-> d]

Err(d) == [ok |-> FALSE, db |-> d]

-----------------------------------------------------------------------------
(* The statements the handlers execute, as the engine runs them.  Each     *)
(* returns ok (FALSE: the engine raised, the database is unchanged) and    *)
(* the database after the statement.                                       *)

\* A CREATE TABLE without IF NOT EXISTS.
ExecCreateTablePlain(d, n, cols, tail) ==
    IF Len(cols) = 0 \/ HasTable(d, n) THEN Err(d)
    ELSE Ok(Append(d, [name |-> n, cols |-> cols, rows |-> <<>>,
                       quoted |-> FALSE, tail |-> tail]))

\* CREATE TABLE IF NOT EXISTS <n> <tail>
ExecCreateTable(d, n, cols, tail) ==
    IF Len(cols) = 0 THEN Err(d)
    ELSE IF HasTable(d, n) THEN Ok(d)
    ELSE Ok(Append(d, [name |-> n, cols |-> cols, rows |-> <<>>,
                       quoted |-> FALSE, tail |-> tail]))

\* The rowid an INSERT gives the new row: the value bound to the rowid alias
\* column when there is one, else one more than the largest rowid.
InsertRowid(tbl, data) ==
    LET given == {i \in 1..Len(tbl.cols) :
                     /\ IsRowidAlias(tbl.cols[i])
                     /\ tbl.cols[i].name \in DOMAIN data
                     /\ ApplyAffinity("INTEGER", data[tbl.cols[i].name]).k # "null"}
    IN  IF given = {} THEN IntV(MaxOf(Rowids(tbl)) + 1)
        ELSE ApplyAffinity("INTEGER", data[tbl.cols[CHOOSE i \in given : TRUE].name])

\* An INSERT that stores every bound value as sent, whatever the column.
ExecInsertVerbatim(d, n, data) ==
    IF DOMAIN data = {} \/ ~HasTable(d, n) THEN [ok |-> FALSE, db |-> d, rowid |-> 0]
    ELSE
    LET tbl == TableOf(d, n)
        rid == InsertRowid(tbl, data)
        row == [rowid |-> rid.n,
                vals |-> [i \in 1..Len(tbl.cols) |->
                            IF tbl.cols[i].name \in DOMAIN data
                            THEN data[tbl.cols[i].name]
                            ELSE IF IsRowidAlias(tbl.cols[i]) THEN rid ELSE Null]]
    IN  IF \/ \E c \in DOMAIN data : ~HasCol(tbl, c)
           \/ rid.k # "int"
           \/ rid.n \in Rowids(tbl)
        THEN [ok |-> FALSE, db |-> d, rowid |-> 0]
        ELSE [ok |-> TRUE,
              db |-> [d EXCEPT ![FindTable(d, n)].rows = SortRows(Append(tbl.rows, row))],
              rowid |-> rid.n]

\* INSERT INTO <n> (<cols of data>) VALUES (<bound values of data>)
ExecInsert(d, n, data) ==
    IF DOMAIN data = {} \/ ~HasTable(d, n) THEN [ok |-> FALSE, db |-> d, rowid |-> 0]
    ELSE
    LET tbl == TableOf(d, n)
        rid == InsertRowid(tbl, data)
        row == [rowid |-> rid.n,
                vals |-> [i \in 1..Len(tbl.cols) |->
                            IF IsRowidAlias(tbl.cols[i]) THEN rid
                            ELSE IF tbl.cols[i].name \in DOMAIN data
                                 THEN ApplyAffinity(Affinity(tbl.cols[i].type),
                                                    data[tbl.cols[i].name])
                                 ELSE Null]]
    IN  IF \/ \E c \in DOMAIN data : ~HasCol(tbl, c)
           \/ rid.k # "int"
           \/ rid.n \in Rowids(tbl)
        THEN [ok |-> FALSE, db |-> d, rowid |-> 0]
        ELSE [ok |-> TRUE,
              db |-> [d EXCEPT ![FindTable(d, n)].rows = SortRows(Append(tbl.rows, row))],
              rowid |-> rid.n]

\* <col> = <bound value>: the column's affinity is applied to the bound value,
\* and NULL equals nothing.
SqlEquals(aff, stored, param) ==
    /\ stored.k # "null"
    /\ param.k # "null"
    /\ stored = ApplyAffinity(aff, param)

\* The mapping dict_factory builds for one fetched row.
RowDict(tbl, row) ==
    [c \in Range(ColNames(tbl)) |-> row.vals[ColIndex(tbl, c)]]

\* SELECT * FROM <n> [WHERE c1 = :c1 AND c2 = :c2 ...]
ExecSelect(d, n, filters) ==
    IF ~HasTable(d, n) THEN [ok |-> FALSE, rows |-> <<>>]
    ELSE
    LET tbl == TableOf(d, n)
        hit(i) == \A c \in DOMAIN filters :
                      SqlEquals(Affinity(tbl.cols[ColIndex(tbl, c)].type),
                                tbl.rows[i].vals[ColIndex(tbl, c)], filters[c])
        idx == SelectSeq([i \in 1..Len(tbl.rows) |-> i], hit)
    IN  IF \E c \in DOMAIN filters : ~HasCol(tbl, c)
        THEN [ok |-> FALSE, rows |-> <<>>]
        ELSE [ok |-> TRUE, rows |-> [k \in 1..Len(idx) |-> RowDict(tbl, tbl.rows[idx[k]])]]

\* UPDATE <n> SET c = :c, ... WHERE rowid = :record_id, with the values bound
\* from params.
ExecUpdate(d, n, setcols, params) ==
    IF setcols = {} \/ ~HasTable(d, n) THEN Err(d)
    ELSE
    LET tbl == TableOf(d, n)
        target == ApplyAffinity("INTEGER", params[record_id])
        i == IF target.k = "int" THEN RowIndex(tbl, target.n) ELSE 0
        newvals == [j \in 1..Len(tbl.cols) |->
                      IF tbl.cols[j].name \in setcols
                      THEN ApplyAffinity(Affinity(tbl.cols[j].type),
                                         params[tbl.cols[j].name])
                      ELSE tbl.rows[i].vals[j]]
        alias == {j \in 1..Len(tbl.cols) :
                     IsRowidAlias(tbl.cols[j]) /\ tbl.cols[j].name \in setcols}
        newid == IF alias = {} THEN IntV(tbl.rows[i].rowid)
                 ELSE newvals[CHOOSE j \in alias : TRUE]
    IN  IF \E c \in setcols : ~HasCol(tbl, c) THEN Err(d)
        ELSE IF i = 0 THEN Ok(d)
        ELSE IF newid.k # "int" THEN Err(d)
        ELSE IF newid.n # tbl.rows[i].rowid /\ newid.n \in Rowids(tbl) THEN Err(d)
        ELSE Ok([d EXCEPT ![FindTable(d, n)].rows =
                    SortRows([tbl.rows EXCEPT ![i] =
                                 [rowid |-> newid.n, vals |-> newvals]])])

\* A DELETE whose condition is rowid <= :record_id.
ExecDeleteUpTo(d, n, rid) ==
    IF ~HasTable(d, n) THEN Err(d)
    ELSE LET tbl == TableOf(d, n)
             keep(r) == r.rowid > rid
         IN  Ok([d EXCEPT ![FindTable(d, n)].rows = SelectSeq(tbl.rows, keep)])

\* DELETE FROM <n> WHERE rowid = :record_id
ExecDelete(d, n, rid) ==
    IF ~HasTable(d, n) THEN Err(d)
    ELSE LET tbl == TableOf(d, n)
             keep(r) == r.rowid # rid
         IN  Ok([d EXCEPT ![FindTable(d, n)].rows = SelectSeq(tbl.rows, keep)])

\* A statement that empties the table instead of dropping it.
ExecDropTableRowsOnly(d, n, ifExists) ==
    IF ~HasTable(d, n) THEN (IF ifExists THEN Ok(d) ELSE Err(d))
    ELSE Ok([d EXCEPT ![FindTable(d, n)].rows = <<>>])

\* DROP TABLE [IF EXISTS] <n>
ExecDropTable(d, n, ifExists) ==
    IF ~HasTable(d, n) THEN (IF ifExists THEN Ok(d) ELSE Err(d))
    ELSE Ok(RemoveAt(d, FindTable(d, n)))

\* ALTER TABLE <n> ADD COLUMN <col> <type>: the column is appended, null in
\* every row, and its definition is appended to the stored DDL.
ExecAddColumn(d, n, col, type) ==
    IF ~HasTable(d, n) \/ ~IsBareIdent(col) THEN Err(d)
    ELSE LET tbl == TableOf(d, n)
             k == FindTable(d, n)
         IN  IF HasCol(tbl, col) THEN Err(d)
             ELSE Ok([d EXCEPT
                        ![k].cols = Append(tbl.cols, [name |-> col, type |-> type]),
                        ![k].rows = [i \in 1..Len(tbl.rows) |->
                                        [tbl.rows[i] EXCEPT !.vals = Append(@, Null)]],
                        ![k].tail = SubSeq(tbl.tail, 1, Len(tbl.tail) - 1)
                                    \o <<",", " ">> \o col \o <<" ">> \o type
                                    \o <<")">>])

\* PRAGMA table_info(<n>): the column names, none for a missing table.
ExecTableInfo(d, n) == IF HasTable(d, n) THEN ColNames(TableOf(d, n)) ELSE <<>>

\* The column names of a CREATE TABLE ... AS SELECT: a name already taken by
\* an earlier column gets the suffix ":<count>".
ResultNames(selects) ==
    [i \in 1..Len(selects) |->
        LET before == Cardinality({j \in 1..(i - 1) : selects[j].as = selects[i].as})
        IN  IF before = 0 THEN selects[i].as
            ELSE selects[i].as \o <<":">> \o FormatInt(before)]

\* The declared type CREATE TABLE ... AS SELECT gives a column.
CtasType(type) == IF Affinity(type) = "INTEGER" THEN INT ELSE TEXT

\* CREATE TABLE <new> AS SELECT <expr [AS as], ...> FROM <from>
ExecCreateTableAsSelect(d, new, selects, from) ==
    IF \/ Len(selects) = 0
       \/ \E i \in 1..Len(selects) :
              ~IsBareIdent(selects[i].expr) \/ ~IsBareIdent(selects[i].as)
       \/ HasTable(d, new)
       \/ ~HasTable(d, from)
    THEN Err(d)
    ELSE
    LET src == TableOf(d, from)
        names == ResultNames(selects)
        cols == [i \in 1..Len(selects) |->
                    [name |-> names[i],
                     type |-> CtasType(src.cols[ColIndex(src, selects[i].expr)].type)]]
        rows == [k \in 1..Len(src.rows) |->
                    [rowid |-> k,
                     vals |-> [i \in 1..Len(selects) |->
                                 src.rows[k].vals[ColIndex(src, selects[i].expr)]]]]
        defs == [i \in 1..Len(cols) |->
                    (IF IsBareIdent(cols[i].name) THEN cols[i].name
                     ELSE Quote(cols[i].name)) \o <<" ">> \o cols[i].type]
    IN  IF \E i \in 1..Len(selects) : ~HasCol(src, selects[i].expr) THEN Err(d)
        ELSE Ok(Append(d, [name |-> new, cols |-> cols, rows |-> rows,
                           quoted |-> FALSE,
                           tail |-> <<"(">> \o Join(defs, <<",">>) \o <<")">>]))

\* ALTER TABLE <old> RENAME TO <new>: the stored DDL gets the new name, quoted.
ExecRenameTable(d, old, new) ==
    IF ~HasTable(d, old) \/ HasTable(d, new) THEN Err(d)
    ELSE Ok([d EXCEPT ![FindTable(d, old)].name = new,
                      ![FindTable(d, old)].quoted = TRUE])

\* SELECT name FROM sqlite_master WHERE type='table'
ExecListTables(d) == [i \in 1..Len(d) |-> d[i].name]

-----------------------------------------------------------------------------
(* Inputs the callers draw from.                                           *)

TableNames == {t, t_new}

ColsA ==
    <<[name |-> id, type |-> INTEGER_PRIMARY_KEY],
      [name |-> name, type |-> TEXT],
      [name |-> age, type |-> INTEGER]>>

ColsB ==
    <<[name |-> name, type |-> TEXT],
      [name |-> record_id, type |-> INTEGER]>>

\* Concurrent callers draw from the smaller of the two sets of inputs.
Inputs(sequential, parallel) == IF concurrent THEN parallel ELSE sequential

CreateInputs ==
    Inputs({<<t, ColsA>>, <<t, ColsB>>, <<t_new, ColsB>>}, {<<t, ColsB>>})

\* Payloads of insert_record and update_record.
DataSet ==
    Inputs({ <<>>,
             (name :> TextV(<<"a">>)) @@ (age :> IntV(1)),
             (name :> IntV(1)) @@ (age :> TextV(<<"1">>)),
             (id :> TextV(<<"2">>)),
             (record_id :> IntV(2)) },
           { (record_id :> IntV(2)) })

\* Filters of get_records.
FilterSet ==
    Inputs({ <<>>,
             (name :> TextV(<<"a">>)) @@ (age :> IntV(1)),
             (age :> TextV(<<"1">>)),
             (age :> Null) },
           { <<>> })

\* Tables the callers insert into, update and delete from.
DataTables == {t}

MaxRowsNow == Inputs(MaxRows, MaxRowsConcurrent)

RecordIds == 1..Inputs(MaxRowid, MaxRowsConcurrent)

RebuildTables == {t}

DropColumns == Inputs({age}, {record_id})

RenameInputs == Inputs({<<name, label>>, <<name, age>>}, {<<name, label>>})

AddColumnInputs == {<<t, label, TEXT>>}

RenameTableInputs == {<<t_new, t>>}

TotalRows(d) == LET RECURSIVE Sum(_)
                    Sum(i) == IF i = 0 THEN 0 ELSE Len(d[i].rows) + Sum(i - 1)
                IN  Sum(Len(d))

-----------------------------------------------------------------------------
(* Connections and calls.                                                  *)

\* get_db(): one more open connection.
get_db(open) == open + 1

\* A close that runs only after the body has succeeded.
ReleaseOnSuccess(open, ok) == IF ok THEN open - 1 ELSE open

\* finally: conn.close() runs whether or not the body raised.
Release(open, ok) == open - 1

Status(ok) == IF ok THEN "success" ELSE "error"

\* What the caller of the call that ended last got back; changed tells
\* whether a statement of that call changed the database.
Result(op, table_name, ok, out, changed) ==
    [op |-> op, table |-> table_name, status |-> Status(ok), out |-> out,
     changed |-> changed]

\* A call may start when no other call is running, or at any time when
\* callers are concurrent (separate server processes on the same database
\* file).
CanStart == calls = EmptyBag \/ concurrent

\* The same for a call of several statements, of which at most MaxInFlight
\* are running at a time.
CanStartSequence == \/ calls = EmptyBag
                    \/ concurrent /\ BagCardinality(calls) < MaxInFlight

\* A call that is between two of its statements: its arguments, the next
\* statement, its local lists, and whether it has changed the database.
Call(op, table_name, args, pc, columns, schemas) ==
    [op |-> op, table |-> table_name, args |-> args, pc |-> pc,
     columns |-> columns, schemas |-> schemas, wrote |-> FALSE]

-----------------------------------------------------------------------------
(* The single-statement handlers.                                          *)

ping ==
    /\ CanStart
    /\ last' = Result("ping", <<>>, TRUE, <<"P", "o", "n", "g", "!">>, FALSE)
    /\ UNCHANGED <<db, calls, conns, concurrent>>

create_table(table_name, columns) ==
    /\ CanStart
    /\ LET column_defs == [i \in 1..Len(columns) |->
                              columns[i].name \o <<" ">> \o columns[i].type]
           tail == <<" ", "(">> \o Join(column_defs, <<",", " ">>) \o <<")">>
           r == ExecCreateTable(db, table_name, columns, tail)
       IN  /\ db' = r.db
           /\ last' = Result("create_table", table_name, r.ok, <<>>, r.db # db)
           /\ conns' = Release(get_db(conns), r.ok)
    /\ UNCHANGED <<calls, concurrent>>

insert_record(table_name, data) ==
    /\ CanStart
    /\ LET r == ExecInsert(db, table_name, data)
       IN  /\ r.ok => r.rowid <= MaxRowid /\ TotalRows(r.db) <= MaxRowsNow
           /\ db' = r.db
           /\ last' = Result("insert_record", table_name, r.ok, r.rowid, r.db # db)
           /\ conns' = Release(get_db(conns), r.ok)
    /\ UNCHANGED <<calls, concurrent>>

get_records(table_name, filters) ==
    /\ CanStart
    /\ LET r == ExecSelect(db, table_name, filters)
       IN  /\ last' = Result("get_records", table_name, r.ok, r.rows, FALSE)
           /\ conns' = Release(get_db(conns), r.ok)
    /\ UNCHANGED <<db, calls, concurrent>>

update_record(table_name, rid, data) ==
    /\ CanStart
    /\ LET params == [c \in DOMAIN data \cup {record_id} |->
                         IF c = record_id THEN IntV(rid) ELSE data[c]]
           r == ExecUpdate(db, table_name, DOMAIN data, params)
       IN  /\ db' = r.db
           /\ last' = Result("update_record", table_name, r.ok, rid, r.db # db)
           /\ conns' = Release(get_db(conns), r.ok)
    /\ UNCHANGED <<calls, concurrent>>

delete_record(table_name, rid) ==
    /\ CanStart
    /\ LET r == ExecDelete(db, table_name, rid)
       IN  /\ db' = r.db
           /\ last' = Result("delete_record", table_name, r.ok, rid, r.db # db)
           /\ conns' = Release(get_db(conns), r.ok)
    /\ UNCHANGED <<calls, concurrent>>

drop_table(table_name) ==
    /\ CanStart
    /\ LET r == ExecDropTable(db, table_name, TRUE)
       IN  /\ db' = r.db
           /\ last' = Result("drop_table", table_name, r.ok, <<>>, r.db # db)
           /\ conns' = Release(get_db(conns), r.ok)
    /\ UNCHANGED <<calls, concurrent>>

add_column(table_name, column_name, column_type) ==
    /\ CanStart
    /\ LET r == ExecAddColumn(db, table_name, column_name, column_type)
       IN  /\ db' = r.db
           /\ last' = Result("add_column", table_name, r.ok, <<>>, r.db # db)
           /\ conns' = Release(get_db(conns), r.ok)
    /\ UNCHANGED <<calls, concurrent>>

rename_table(old_name, new_name) ==
    /\ CanStart
    /\ LET r == ExecRenameTable(db, old_name, new_name)
       IN  /\ db' = r.db
           /\ last' = Result("rename_table", old_name, r.ok, <<>>, r.db # db)
           /\ conns' = Release(get_db(conns), r.ok)
    /\ UNCHANGED <<calls, concurrent>>

-----------------------------------------------------------------------------
(* drop_column and rename_column: introspect, then the copy-rebuild        *)
(* sequence, one statement per step.  Each statement is DDL, which the     *)
(* driver runs outside any transaction, so each is durable as soon as it   *)
(* has run; the trailing commit() has nothing left to commit.              *)

drop_column(table_name, column_name) ==
    /\ CanStartSequence
    /\ LET info == ExecTableInfo(db, table_name)
           keep(c) == c # column_name
           kept == SelectSeq(info, keep)
           columns == [i \in 1..Len(kept) |-> [expr |-> kept[i], as |-> kept[i]]]
       IN  /\ calls' = calls (+) SetToBag({Call("drop_column", table_name,
                                        <<column_name>>, "create",
                                        columns, <<>>)})
           /\ conns' = get_db(conns)
    /\ UNCHANGED <<db, last, concurrent>>

rename_column(table_name, old_name, new_name) ==
    /\ CanStartSequence
    /\ LET info == ExecTableInfo(db, table_name)
           columns == [i \in 1..Len(info) |->
                          IF info[i] = old_name
                          THEN [expr |-> info[i], as |-> new_name]
                          ELSE [expr |-> info[i], as |-> info[i]]]
       IN  /\ calls' = calls (+) SetToBag({Call("rename_column", table_name,
                                        <<old_name, new_name>>, "create",
                                        columns, <<>>)})
           /\ conns' = get_db(conns)
    /\ UNCHANGED <<db, last, concurrent>>

\* The call raises or returns: the connection is released and the caller
\* gets its answer.
Finish(call, d, ok, out) ==
    /\ db' = d
    /\ calls' = calls (-) SetToBag({call})
    /\ conns' = Release(conns, ok)
    /\ last' = Result(call.op, call.table, ok, out, call.wrote \/ d # db)
    /\ UNCHANGED concurrent

\* The call goes on while what its statement did waits, uncommitted, for a
\* commit at the end of the call.
ContinueUncommitted(call, d, pc, schemas) ==
    /\ db' = db
    /\ calls' = (calls (-) SetToBag({call}))
                 (+) SetToBag({[call EXCEPT !.pc = pc, !.schemas = schemas]})
    /\ UNCHANGED <<conns, last, concurrent>>

\* The call goes on to its next statement.
Continue(call, d, pc, schemas) ==
    /\ db' = d
    /\ calls' = (calls (-) SetToBag({call}))
                 (+) SetToBag({[call EXCEPT !.pc = pc, !.schemas = schemas,
                                             !.wrote = call.wrote \/ d # db]})
    /\ UNCHANGED <<conns, last, concurrent>>

\* CREATE TABLE <name>_new AS SELECT <columns> FROM <name>
RebuildCreate(call) ==
    /\ call.op \in {"drop_column", "rename_column"}
    /\ call.pc = "create"
    /\ LET temp_table == call.table \o suffix_new
           r == ExecCreateTableAsSelect(db, temp_table, call.columns, call.table)
       IN  IF r.ok THEN Continue(call, r.db, "drop", <<>>)
           ELSE Finish(call, r.db, FALSE, <<>>)

\* DROP TABLE <name>
RebuildDrop(call) ==
    /\ call.op \in {"drop_column", "rename_column"}
    /\ call.pc = "drop"
    /\ LET r == ExecDropTable(db, call.table, FALSE)
       IN  IF r.ok THEN Continue(call, r.db, "rename", <<>>)
           ELSE Finish(call, r.db, FALSE, <<>>)

\* ALTER TABLE <name>_new RENAME TO <name>; commit; return
RebuildRename(call) ==
    /\ call.op \in {"drop_column", "rename_column"}
    /\ call.pc = "rename"
    /\ LET temp_table == call.table \o suffix_new
           r == ExecRenameTable(db, temp_table, call.table)
       IN  Finish(call, r.db, r.ok, <<>>)

\* The server process dies between two statements of a call: the connection
\* goes with the process, and what the statements already run have made
\* durable stays.
Interrupt(call) ==
    /\ db' = db
    /\ calls' = calls (-) SetToBag({call})
    /\ conns' = conns - 1
    /\ last' = [op |-> call.op, table |-> call.table, status |-> "interrupted",
                out |-> call.pc, changed |-> call.wrote]
    /\ UNCHANGED concurrent

-----------------------------------------------------------------------------
(* get_schema: list the tables, then fetch each one's stored DDL.          *)

get_schema ==
    /\ CanStartSequence
    /\ LET tables == ExecListTables(db)
       IN  IF Len(tables) = 0
           THEN /\ last' = Result("get_schema", <<>>, TRUE, <<>>, FALSE)
                /\ conns' = Release(get_db(conns), TRUE)
                /\ UNCHANGED <<db, calls, concurrent>>
           ELSE /\ calls' = calls (+) SetToBag({Call("get_schema", <<>>, <<>>, "fetch",
                                             tables, <<>>)})
                /\ conns' = get_db(conns)
                /\ UNCHANGED <<db, last, concurrent>>

\* SELECT sql FROM sqlite_master WHERE type='table' AND name='<table>';
\* fetchone() is None, and subscripting it raises, when the table is gone.
GetSchemaFetch(call) ==
    /\ call.op = "get_schema"
    /\ call.pc = "fetch"
    /\ LET table == call.columns[Len(call.schemas) + 1]
           schemas == Append(call.schemas, TableSql(TableOf(db, table)))
       IN  IF ~HasTable(db, table) THEN Finish(call, db, FALSE, <<>>)
           ELSE IF Len(schemas) < Len(call.columns)
                THEN Continue(call, db, "fetch", schemas)
                ELSE Finish(call, db, TRUE, Join(schemas, <<";", "\n">>))

\* The document get_schema returns when nothing runs between its statements.
SchemaDocument(d) ==
    Join([i \in 1..Len(d) |-> TableSql(d[i])], <<";", "\n">>)

-----------------------------------------------------------------------------

NoCall ==
    [op |-> "none", table |-> <<>>, status |-> "none", out |-> <<>>, changed |-> FALSE]

Init ==
    /\ db = <<>>
    /\ calls = EmptyBag
    /\ conns = 0
    /\ last = NoCall
    /\ concurrent = FALSE

InitConcurrent ==
    /\ db = <<>>
    /\ calls = EmptyBag
    /\ conns = 0
    /\ last = NoCall
    /\ concurrent = TRUE

Next ==
    \/ ping
    \/ \E in \in CreateInputs : create_table(in[1], in[2])
    \/ \E n \in DataTables, data \in DataSet : insert_record(n, data)
    \/ \E n \in TableNames, filters \in FilterSet : get_records(n, filters)
    \/ \E n \in DataTables, rid \in RecordIds, data \in DataSet : update_record(n, rid, data)
    \/ \E n \in DataTables, rid \in RecordIds : delete_record(n, rid)
    \/ \E n \in TableNames : drop_table(n)
    \/ \E in \in AddColumnInputs : add_column(in[1], in[2], in[3])
    \/ \E n \in RebuildTables, c \in DropColumns : drop_column(n, c)
    \/ \E n \in RebuildTables, in \in RenameInputs : rename_column(n, in[1], in[2])
    \/ \E in \in RenameTableInputs : rename_table(in[1], in[2])
    \/ \E call \in BagToSet(calls) : RebuildCreate(call)
    \/ \E call \in BagToSet(calls) : RebuildDrop(call)
    \/ \E call \in BagToSet(calls) : RebuildRename(call)
    \/ get_schema
    \/ \E call \in BagToSet(calls) : GetSchemaFetch(call)

NextConcurrent ==
    \/ Next
    \/ \E call \in BagToSet(calls) : Interrupt(call)

\* One caller at a time.
Spec == Init /\ [][Next]_vars

\* Callers in separate processes, any of which may die between statements.
SpecConcurrent == InitConcurrent /\ [][NextConcurrent]_vars

-----------------------------------------------------------------------------
(* What a caller reads back.                                               *)

\* The rows get_records(n) returns from database d when called without filters.
AllRecords(d, n) == ExecSelect(d, n, <<>>).rows

\* The value a column holds after a successful write of v to it.
Stored(col, v, rowid) ==
    IF IsRowidAlias(col) /\ v.k = "null" THEN IntV(rowid)
    ELSE ApplyAffinity(Affinity(col.type), v)

TypeAt(tbl, c) == tbl.cols[ColIndex(tbl, c)]

-----------------------------------------------------------------------------
(* C1 *)

\* C1, as stated: after a successful insert_record(n, data), get_records(n)
\* returns the previous rows plus exactly one new row, the new row holds
\* data's value, unchanged, in every column of data, and the returned
\* record_id is the rowid of the new row.
InsertRoundTripExact ==
    [][\A n \in DataTables, data \in DataSet :
          (last'.op = "insert_record" /\ last'.status = "success"
              /\ insert_record(n, data)) =>
              LET before == AllRecords(db, n)
                  after == AllRecords(db', n)
                  rows == TableOf(db', n).rows
              IN  \E i \in 1..Len(after) :
                      /\ RemoveAt(after, i) = before
                      /\ rows[i].rowid = last'.out
                      /\ \A c \in DOMAIN data : after[i][c] = data[c]]_vars

\* C1, amended: as above, but the new row holds in every column of data the
\* inserted value as the engine converts it for that column: digits sent as
\* text to an INTEGER column are stored as the integer, an integer sent to a
\* TEXT column is stored as its decimal text, and a null sent to the
\* INTEGER PRIMARY KEY column is stored as the assigned rowid.
InsertRoundTrip ==
    [][\A n \in DataTables, data \in DataSet :
          (last'.op = "insert_record" /\ last'.status = "success"
              /\ insert_record(n, data)) =>
              LET before == AllRecords(db, n)
                  after == AllRecords(db', n)
                  tbl == TableOf(db', n)
              IN  \E i \in 1..Len(after) :
                      /\ RemoveAt(after, i) = before
                      /\ tbl.rows[i].rowid = last'.out
                      /\ last'.out \notin Rowids(TableOf(db, n))
                      /\ \A c \in DOMAIN data :
                             after[i][c] = Stored(TypeAt(tbl, c), data[c], last'.out)]_vars

\* A second row has just been inserted, and its name, sent as the integer 1,
\* reads back as the text "1".
InsertRoundTripWitness ==
    /\ last.op = "insert_record"
    /\ last.status = "success"
    /\ HasTable(db, last.table)
    /\ LET tbl == TableOf(db, last.table)
       IN  /\ Len(tbl.rows) = 2
           /\ HasCol(tbl, name)
           /\ RowIndex(tbl, last.out) # 0
           /\ RowDict(tbl, tbl.rows[RowIndex(tbl, last.out)])[name] = TextV(<<"1">>)

-----------------------------------------------------------------------------
(* C2 *)

OtherTablesSame(d1, d2, n) ==
    /\ Len(d1) = Len(d2)
    /\ \A k \in 1..Len(d1) : d1[k].name # n => d2[k] = d1[k]

SameDefinition(old, new) == [new EXCEPT !.rows = old.rows] = old

\* C2: after a successful update_record(n, rid, data) the targeted row holds
\* data's values (as the columns store them) in the columns of data and its
\* previous values elsewhere, every other row and table is unchanged and so
\* is the number of rows; with no row of that rowid the database is unchanged.
UpdateOnlyTarget ==
    [][\A n \in DataTables, rid \in RecordIds, data \in DataSet :
          (last'.op = "update_record" /\ last'.status = "success"
              /\ update_record(n, rid, data)) =>
              LET old == TableOf(db, n)
                  new == TableOf(db', n)
                  i == RowIndex(old, rid)
                  alias == {c \in DOMAIN data : IsRowidAlias(TypeAt(old, c))}
                  nid == IF alias = {} THEN rid
                         ELSE Stored(TypeAt(old, CHOOSE c \in alias : TRUE),
                                     data[CHOOSE c \in alias : TRUE], rid).n
                  j == RowIndex(new, nid)
              IN  IF i = 0 THEN db' = db
                  ELSE /\ OtherTablesSame(db, db', n)
                       /\ SameDefinition(old, new)
                       /\ Len(new.rows) = Len(old.rows)
                       /\ j # 0
                       /\ \A c \in Range(ColNames(old)) :
                              RowDict(new, new.rows[j])[c] =
                                  IF c \in DOMAIN data
                                  THEN Stored(TypeAt(old, c), data[c], rid)
                                  ELSE RowDict(old, old.rows[i])[c]
                       /\ \A k \in 1..Len(old.rows) :
                              k # i => old.rows[k] \in Range(new.rows)]_vars

-----------------------------------------------------------------------------
(* C3 *)

\* C3: after a successful delete_record(n, rid) the rows of n are the previous
\* rows minus the row whose rowid is rid, one row fewer when that row existed
\* and the same rows when it did not; the call succeeds either way.
DeleteExactlyTarget ==
    [][\A n \in DataTables, rid \in RecordIds :
          (last'.op = "delete_record" /\ delete_record(n, rid)) =>
              /\ HasTable(db, n) <=> last'.status = "success"
              /\ last'.status = "success" =>
                    LET old == TableOf(db, n)
                        new == TableOf(db', n)
                        i == RowIndex(old, rid)
                    IN  /\ OtherTablesSame(db, db', n)
                        /\ SameDefinition(old, new)
                        /\ Rowids(new) = Rowids(old) \ {rid}
                        /\ new.rows = IF i = 0 THEN old.rows ELSE RemoveAt(old.rows, i)
                        /\ AllRecords(db', n) =
                               IF i = 0 THEN AllRecords(db, n)
                               ELSE RemoveAt(AllRecords(db, n), i)
                        /\ Len(AllRecords(db', n)) =
                               Len(AllRecords(db, n)) - (IF i = 0 THEN 0 ELSE 1)]_vars

\* A delete has just removed one of two rows.
DeleteExactlyTargetWitness ==
    /\ last.op = "delete_record"
    /\ last.status = "success"
    /\ last.changed
    /\ HasTable(db, last.table)
    /\ Len(TableOf(db, last.table).rows) = 1
    /\ last.out \notin Rowids(TableOf(db, last.table))

-----------------------------------------------------------------------------
(* C4 *)

\* C4: get_records(n, filters) returns exactly the rows of n that hold, in
\* every filter column, the filter's value (as the column stores it), for
\* text, integer and null filter values; all rows without filters, and an
\* empty list when none matches.
FiltersConjoin ==
    [][\A n \in TableNames, filters \in FilterSet :
          (last'.op = "get_records" /\ last'.status = "success"
              /\ get_records(n, filters)) =>
              LET tbl == TableOf(db, n)
                  match(row) ==
                      \A c \in DOMAIN filters :
                          row[c] = ApplyAffinity(Affinity(TypeAt(tbl, c).type), filters[c])
              IN  last'.out = SelectSeq(AllRecords(db, n), match)]_vars

-----------------------------------------------------------------------------
(* C5 *)

\* C5: create_table with the name of an existing table, with the same or with
\* other columns, returns success and leaves the stored definition and the
\* rows of the table, and the rest of the database, as they were.
CreateTableIdempotent ==
    [][\A in \in CreateInputs :
          (last'.op = "create_table" /\ HasTable(db, in[1])
              /\ create_table(in[1], in[2])) =>
              /\ last'.status = "success"
              /\ TableSql(TableOf(db', in[1])) = TableSql(TableOf(db, in[1]))
              /\ AllRecords(db', in[1]) = AllRecords(db, in[1])
              /\ db' = db]_vars

\* create_table has just succeeded on a table that holds rows, changing nothing.
CreateTableIdempotentWitness ==
    /\ last.op = "create_table"
    /\ last.status = "success"
    /\ ~last.changed
    /\ HasTable(db, last.table)
    /\ Len(TableOf(db, last.table).rows) > 0

-----------------------------------------------------------------------------
(* C6 *)

StatementSeparator == <<";", "\n">>

\* The first position at which sub occurs in text, 0 when it does not.
IndexOf(text, sub) ==
    LET at == {i \in 1..(Len(text) - Len(sub) + 1) :
                  \A j \in 1..Len(sub) : text[i + j - 1] = sub[j]}
    IN  IF at = {} THEN 0 ELSE CHOOSE i \in at : \A k \in at : i <= k

\* The statements of a DDL document.
RECURSIVE Statements(_)
Statements(doc) ==
    IF Len(doc) = 0 THEN <<>>
    ELSE LET i == IndexOf(doc, StatementSeparator)
         IN  IF i = 0 THEN <<doc>>
             ELSE <<SubSeq(doc, 1, i - 1)>>
                  \o Statements(SubSeq(doc, i + Len(StatementSeparator), Len(doc)))

\* The table a CREATE TABLE statement defines.
DefinedName(stmt) ==
    LET rest == SubSeq(stmt, Len(CREATE_TABLE) + 1, Len(stmt))
    IN  IF rest[1] = "\""
        THEN SubSeq(rest, 2, IndexOf(Tail(rest), <<"\"">>))
        ELSE LET ends == {i \in 1..Len(rest) : rest[i] \in {" ", "("}}
             IN  SubSeq(rest, 1, (CHOOSE i \in ends : \A k \in ends : i <= k) - 1)

DefinedTables(doc) == {DefinedName(stmt) : stmt \in Range(Statements(doc))}

\* A get_schema call returns a document.
GetSchemaReturns ==
    /\ last'.op = "get_schema"
    /\ last'.status = "success"
    /\ calls' = EmptyBag
    /\ get_schema \/ \E call \in BagToSet(calls) : GetSchemaFetch(call)

\* C6, as stated: drop_table(n) succeeds; the document get_schema returns
\* after it holds no definition of n, and the string n does not occur in it;
\* dropping a table that does not exist changes nothing.
DropTableNameAbsent ==
    [][/\ \A n \in TableNames :
              (last'.op = "drop_table" /\ drop_table(n)) =>
                  /\ last'.status = "success"
                  /\ n \notin DefinedTables(SchemaDocument(db'))
                  /\ ~Contains(SchemaDocument(db'), n)
                  /\ ~HasTable(db, n) => db' = db
       /\ GetSchemaReturns => last'.out = SchemaDocument(db')]_vars

\* C6, amended: drop_table(n) succeeds; the document get_schema returns after
\* it holds no definition of n and still every other table's definition (so
\* the string n can remain in it, inside another name); dropping a table that
\* does not exist changes nothing.
DropTableUnlisted ==
    [][/\ \A n \in TableNames :
              (last'.op = "drop_table" /\ drop_table(n)) =>
                  /\ last'.status = "success"
                  /\ DefinedTables(SchemaDocument(db')) =
                         DefinedTables(SchemaDocument(db)) \ {n}
                  /\ ~HasTable(db, n) => db' = db
       /\ GetSchemaReturns => last'.out = SchemaDocument(db')]_vars

\* t has just been dropped while t_new remains: the schema document defines
\* t_new only, and the string t occurs in it.
DropTableUnlistedWitness ==
    /\ last.op = "drop_table"
    /\ last.table = t
    /\ last.status = "success"
    /\ last.changed
    /\ DefinedTables(SchemaDocument(db)) = {t_new}
    /\ Contains(SchemaDocument(db), t)

-----------------------------------------------------------------------------
(* C7 *)

TempTable(call) == call.table \o suffix_new

IsRebuild(call) == call.op \in {"drop_column", "rename_column"}

\* The call has gone from its statement on to the one at pc.
Moved(call, pc) ==
    /\ CopiesIn(call, calls') < CopiesIn(call, calls)
    /\ \E next \in BagToSet(calls') :
          /\ next = [call EXCEPT !.pc = pc, !.wrote = next.wrote]
          /\ CopiesIn(next, calls') > CopiesIn(next, calls)

\* The call has ended: returned, raised, or been interrupted.
Ended(call) ==
    /\ CopiesIn(call, calls') < CopiesIn(call, calls)
    /\ BagCardinality(calls') < BagCardinality(calls)

\* The three statements of the copy-rebuild sequence, when they succeed.
Copied(call) == IsRebuild(call) /\ call.pc = "create" /\ Moved(call, "drop")

Dropped(call) == IsRebuild(call) /\ call.pc = "drop" /\ Moved(call, "rename")

Renamed(call) ==
    IsRebuild(call) /\ call.pc = "rename" /\ Ended(call) /\ last'.status = "success"

\* C7: a successful drop_column / rename_column keeps the number of rows and
\* each row's value in every retained column; the value formerly under old is
\* under new; the dropped column, and only it, is gone.  Stated statement by
\* statement: the copy holds these rows, the drop leaves the copy alone, and
\* the rename hands the copy's rows to the table.
RebuildPreservesRows ==
    [][\A call \in BagToSet(calls) :
          /\ Copied(call) =>
                LET before == AllRecords(db, call.table)
                    copy == AllRecords(db', TempTable(call))
                IN  /\ Len(copy) = Len(before)
                    /\ \A k \in 1..Len(before) :
                          LET was == DOMAIN before[k]
                              old == call.args[1]
                              new == call.args[Len(call.args)]
                          IN  IF call.op = "drop_column" \/ old \notin was
                              THEN /\ DOMAIN copy[k] = was \ {old}
                                   /\ \A c \in was \ {old} : copy[k][c] = before[k][c]
                              ELSE /\ DOMAIN copy[k] = (was \ {old}) \cup {new}
                                   /\ copy[k][new] = before[k][old]
                                   /\ \A c \in was \ {old} : copy[k][c] = before[k][c]
          /\ Dropped(call) =>
                AllRecords(db', TempTable(call)) = AllRecords(db, TempTable(call))
          /\ Renamed(call) =>
                AllRecords(db', call.table) = AllRecords(db, TempTable(call))]_vars

-----------------------------------------------------------------------------
(* C8 *)

\* C8, as stated: when a call has returned, with a result or with a failure,
\* its connection is closed, so the open connections are those of the calls
\* still running; and a call that failed has changed nothing.
ReleasedAndCommittedOnSuccessOnly ==
    /\ conns = BagCardinality(calls)
    /\ last.status = "error" => ~last.changed

\* C8, amended: the connection is closed on every exit path, as stated; a
\* failed call has changed nothing unless it is a drop_column / rename_column,
\* whose statements are each committed as they run, so that those run before
\* the failing one stay committed.
ReleasedOnEveryPath ==
    /\ conns = BagCardinality(calls)
    /\ (last.status = "error" /\ last.changed) =>
           last.op \in {"drop_column", "rename_column"}

\* A drop_column has failed after its copy was made; no call is running and
\* no connection is open.
ReleasedOnEveryPathWitness ==
    /\ last.op = "drop_column"
    /\ last.status = "error"
    /\ last.changed
    /\ calls = EmptyBag
    /\ conns = 0

-----------------------------------------------------------------------------
(* C9 *)

\* C9: the copy-rebuild sequence is not atomic.  Once its copy is made, both
\* <name> and <name>_new are in the catalog, listed by get_schema and readable
\* by get_records, for the other callers; once its drop is done, <name> is
\* gone and <name>_new is still there; and the database stays as it is when
\* the call is interrupted or fails before the rename.
RebuildNotAtomic ==
    [][\A call \in BagToSet(calls) :
          /\ Copied(call) =>
                /\ {call.table, TempTable(call)} \subseteq Range(ExecListTables(db'))
                /\ {call.table, TempTable(call)} \subseteq DefinedTables(SchemaDocument(db'))
                /\ ExecSelect(db', TempTable(call), <<>>).ok
          /\ Dropped(call) =>
                /\ ~HasTable(db', call.table)
                /\ HasTable(db, TempTable(call)) => HasTable(db', TempTable(call))
          /\ (IsRebuild(call) /\ call.pc = "rename" /\ Ended(call)
                /\ last'.status # "success") =>
                db' = db]_vars

\* While a drop_column is between its copy and its drop, another caller has
\* read t_new, and t is still there.
RebuildNotAtomicWitness ==
    /\ \E call \in BagToSet(calls) : IsRebuild(call) /\ call.pc = "drop" /\ call.table = t
    /\ HasTable(db, t)
    /\ HasTable(db, t_new)
    /\ last.op = "get_records"
    /\ last.table = t_new
    /\ last.status = "success"

-----------------------------------------------------------------------------
(* C10 *)

RowOf(tbl, rid) == tbl.rows[RowIndex(tbl, rid)]

\* C10: through insert_record, delete_record, drop_column and rename_column a
\* record id keeps identifying the row it was returned for: every row that
\* remains is found under the same rowid after the call as before it.
RecordIdStable ==
    [][/\ \A n \in DataTables, data \in DataSet :
              (last'.op = "insert_record" /\ last'.status = "success"
                  /\ insert_record(n, data)) =>
                  \A r \in Rowids(TableOf(db, n)) :
                      /\ r \in Rowids(TableOf(db', n))
                      /\ RowOf(TableOf(db', n), r) = RowOf(TableOf(db, n), r)
       /\ \A n \in DataTables, rid \in RecordIds :
              (last'.op = "delete_record" /\ last'.status = "success"
                  /\ delete_record(n, rid)) =>
                  \A r \in Rowids(TableOf(db, n)) \ {rid} :
                      /\ r \in Rowids(TableOf(db', n))
                      /\ RowOf(TableOf(db', n), r) = RowOf(TableOf(db, n), r)
       /\ \A call \in BagToSet(calls) :
              /\ Copied(call) =>
                    LET src == TableOf(db, call.table)
                        copy == TableOf(db', TempTable(call))
                    IN  \A r \in Rowids(src) :
                            /\ r \in Rowids(copy)
                            /\ \A i \in 1..Len(call.columns) :
                                   RowOf(copy, r).vals[i] =
                                       RowOf(src, r).vals[ColIndex(src, call.columns[i].expr)]
              /\ Renamed(call) =>
                    TableOf(db', call.table).rows = TableOf(db, TempTable(call)).rows]_vars

-----------------------------------------------------------------------------
(* C11 *)

\* C11: a successful update_record(n, rid, data) selects the row whose rowid
\* is rid, and no other, and writes to every column named in data, a column
\* named record_id included, data's value for it (as the column stores it).
UpdateBindsCallerValues ==
    [][\A n \in DataTables, rid \in RecordIds, data \in DataSet :
          (last'.op = "update_record" /\ last'.status = "success"
              /\ update_record(n, rid, data)) =>
              LET old == TableOf(db, n)
                  new == TableOf(db', n)
                  i == RowIndex(old, rid)
                  alias == {c \in DOMAIN data : IsRowidAlias(TypeAt(old, c))}
                  nid == IF alias = {} THEN rid
                         ELSE Stored(TypeAt(old, CHOOSE c \in alias : TRUE),
                                     data[CHOOSE c \in alias : TRUE], rid).n
                  j == RowIndex(new, nid)
              IN  IF i = 0 THEN new.rows = old.rows
                  ELSE /\ j # 0
                       /\ \A c \in DOMAIN data :
                              RowDict(new, new.rows[j])[c] =
                                  Stored(TypeAt(old, c), data[c], rid)
                       /\ \A k \in 1..Len(old.rows) :
                              k # i => old.rows[k] \in Range(new.rows)]_vars

====
